---- MODULE Spec2Model ----
(***************************************************************************)
(* Pi Guard (src/piguard.py): the clock-edge interrupt handler PiGuard.isr *)
(* operating the bidirectional PULSE_PIN under pulse_pin_mutex, the        *)
(* startup of PiGuard.main (bus, pins, parameter pushes), its polling loop *)
(* that reads voltage/mode over I2C and appends to the two history files,  *)
(* and PiGuard.load_config clamping the parameters read from the           *)
(* configuration file.                                                     *)
(*                                                                         *)
(* Library semantics assumed for RPi.GPIO (not part of the repository):    *)
(*   - GPIO.input on a pin configured as output returns the driven level;  *)
(*     on a pin configured as input with pull-up it returns low exactly    *)
(*     when the UPS pulls the line low;                                    *)
(*   - GPIO.cleanup() removes the edge detection and un-configures every   *)
(*     channel; GPIO.input / GPIO.output on an un-configured channel raise *)
(*     RuntimeError, GPIO.setup configures it again.                       *)
(* Time is in whole seconds; it advances only where the main thread        *)
(* sleeps, the only thread that reads the clock for the history gate.      *)
(***************************************************************************)
EXTENDS Integers, Sequences, FiniteSets, TLC

\* ------------------------------------------------------------------ bounds
NumHandlers == 2      \* callback executions that may be in flight at once
MaxCalls == 2         \* SpecIsr: callback invocations explored
IsrMaxTime == 25      \* SpecIsr: the polling loop is explored up to this time
LoopMaxTime == 95     \* SpecLoop: the polling loop is explored up to this time

\* ------------------------------------------------------- program constants
SET_SHUTDOWN_TIME_CMD == 3
WATCHDOG_RPI_CMD == 4
POST_SHUTDOWN_CMD == 5
CLOCK_PIN == 27
PULSE_PIN == 22
MIN_SHUTDOWN_DELAY == 1
MAX_SHUTDOWN_DELAY == 235
MIN_WATCHDOG_RPI == 3
MAX_WATCHDOG_RPI == 10
MIN_POST_SHUTDOWN == 10
MAX_POST_SHUTDOWN == 254
MIN_LOOP_RUN_UPS == 1
MAX_LOOP_RUN_UPS == 20
MIN_FREC_HISTORY == 20
MAX_FREC_HISTORY == 3600
DEFAULT_FREC_HISTORY == 60
DEFAULT_SHUTDOWN_DELAY == 60
DEFAULT_WATCHDOG_RPI == 5
DEFAULT_POST_SHUTDOWN == 30
SETTLE_SECONDS == 15

\* ------------------------------------------------------------ input sets
None == 0 - 1                           \* Python None: no byte is negative
OtherPin == 17                          \* a channel of some other HAT
Channels == {CLOCK_PIN, OtherPin}
Handlers == 1..NumHandlers
Voltages == {210}                       \* raw bytes read for the voltage
Modes == {0, 1}                         \* raw bytes read for the mode
RawLoopRun == {10}                      \* LOOP_RUN_UPS in the config file
RawFrecHistory == {60, 90}              \* FREC_HISTORY in the config file
Overshoot == {0, 20}                    \* time.sleep may return late
AppendOutcomes == {"ok", "open_fails", "flush_fails"}
\* value texts in piguard_config.txt, as sequences of decimal digits
ShutdownDelayTexts == {<<0>>, <<1>>, <<2, 0, 0>>, <<2, 3, 5>>, <<5, 0, 0>>}
WatchdogTexts == {<<2>>, <<0, 5>>, <<1, 1>>}
LoopRunTexts == {<<0>>, <<5>>, <<2, 1>>}
PostShutdownTexts == {<<9>>, <<3, 0>>, <<2, 5, 5>>}
FrecHistoryTexts == {<<1, 9>>, <<6, 0>>, <<3, 6, 0, 0>>, <<3, 6, 0, 1>>}
I2cTexts == {"True", "true", "TRUE", "False", "0"}
NumericKeys == {"SHUTDOWN_DELAY", "WATCHDOG_RPI", "LOOP_RUN_UPS",
                "POST_SHUTDOWN", "FREC_HISTORY"}

VARIABLES
    \* --- PiGuard fields
    sqwave,            \* self.sqwave
    pulse_pin_mutex,   \* 0 = free, h = held by handler execution h
    history_write,     \* self.history_write
    FREC_HISTORY,      \* self.FREC_HISTORY after load_config
    LOOP_RUN_UPS,      \* self.LOOP_RUN_UPS after load_config
    I2C_SEND_ENABLED,  \* self.I2C_SEND_ENABLED
    SHUTDOWN_DELAY,    \* self.SHUTDOWN_DELAY
    WATCHDOG_RPI,      \* self.WATCHDOG_RPI
    POST_SHUTDOWN,     \* self.POST_SHUTDOWN
    config_vars,       \* self.config_vars: key -> value text as read
    cfgPc,             \* position of load_config
    \* --- piguard_config.txt: key -> value text
    cfgFile,
    \* --- main: position and locals
    mainPc, last_mode, voltage, mode, now,
    exc,               \* exception pending in main: "none" or its class
    \* --- handler executions: position and argument
    pc, channel,
    \* --- hardware
    pinDir,            \* "UNSET" | "OUT" | "IN" : configuration of PULSE_PIN
    pinLevel,          \* level driven while PULSE_PIN is an output
    armed,             \* edge detection on CLOCK_PIN is installed
    upsLow,            \* the UPS controller pulls the pulse line low
    \* --- files: number of lines this process appended, by kind
    eventLog,          \* UPS_History_POWER.dbg
    sampleLog,         \* UPS_History.dbg
    \* --- observation (history variables, not program state)
    calls,             \* callback invocations so far
    accepted,          \* ... of which for CLOCK_PIN
    toggles,           \* times sqwave changed value
    lowSamples,        \* times the handler sampled PULSE_PIN low
    shutdownCalls,     \* times /sbin/shutdown was invoked
    recordFailed,      \* a shutdown-request record could not be written
    nValid,            \* iterations so far with both reads successful
    prev, cur,         \* time and mode of the previous and the latest one
    evOutcome,         \* outcome of the latest mode-line append
    lastAppend,        \* time of the latest sample-log append
    startupLog,        \* what main did so far, in order, up to its first read
    busTrace,          \* bytes the latest parameter push got onto the bus
    window,            \* the history period, as the latest valid sample saw it
    iter               \* the latest valid sample: last_mode before it, and
                       \* the lines it appended to each history file

isrState == <<sqwave, pulse_pin_mutex, pc, channel>>
isrObs == <<calls, accepted, toggles, lowSamples, shutdownCalls, recordFailed>>
mainState == <<history_write, mainPc, last_mode, voltage, mode, now, exc>>
mainObs == <<nValid, prev, cur, evOutcome, lastAppend>>
startObs == <<startupLog, busTrace>>
iterObs == <<window, iter>>
cfgVars == <<FREC_HISTORY, LOOP_RUN_UPS, I2C_SEND_ENABLED, SHUTDOWN_DELAY,
             WATCHDOG_RPI, POST_SHUTDOWN, config_vars, cfgPc, cfgFile>>
hwVars == <<pinDir, pinLevel, armed, upsLow>>
fileVars == <<eventLog, sampleLog>>

vars == <<isrState, isrObs, mainState, mainObs, startObs, iterObs, cfgVars,
          hwVars, fileVars>>

NoSample == [t |-> None, mode |-> None]

\* ------------------------------------------------------------ load_config
Min(a, b) == IF a < b THEN a ELSE b
Max(a, b) == IF a > b THEN a ELSE b

Clamp_NoUpper(lo, raw, hi) == Max(lo, raw)

\* max(lo, min(raw, hi))
Clamp(lo, raw, hi) == Max(lo, Min(raw, hi))

\* int(text) for a text of decimal digits
RECURSIVE int(_)
int(text) ==
    IF text = <<>> THEN 0
    ELSE 10 * int(SubSeq(text, 1, Len(text) - 1)) + text[Len(text)]

\* float(text) for a text of decimal digits: the same whole number
float(text) == int(text)

\* str.lower() on the texts met for I2C_SEND_ENABLED
lower(text) ==
    CASE text \in {"True", "TRUE", "true"} -> "true"
      [] text \in {"False", "FALSE", "false"} -> "false"
      [] OTHER -> text

\* the decimal text of a natural number, as an editor of the file writes it
RECURSIVE Text(_)
Text(n) == IF n < 10 THEN <<n>> ELSE Append(Text(n \div 10), n % 10)

\* the configuration files load_config is run on in SpecConfig:
\* every numeric key present, I2C_SEND_ENABLED present or not
ConfigFiles ==
    LET numeric == [SHUTDOWN_DELAY : ShutdownDelayTexts,
                    WATCHDOG_RPI : WatchdogTexts,
                    LOOP_RUN_UPS : LoopRunTexts,
                    POST_SHUTDOWN : PostShutdownTexts,
                    FREC_HISTORY : FrecHistoryTexts]
        withI2c == [SHUTDOWN_DELAY : ShutdownDelayTexts,
                    WATCHDOG_RPI : WatchdogTexts,
                    LOOP_RUN_UPS : LoopRunTexts,
                    POST_SHUTDOWN : PostShutdownTexts,
                    FREC_HISTORY : FrecHistoryTexts,
                    I2C_SEND_ENABLED : I2cTexts]
    IN  numeric \cup withI2c

\* what load_config leaves alone: everything but the configuration, the
\* configuration file and the event log
LoadFrame == UNCHANGED <<isrState, isrObs, mainState, mainObs, startObs,
                         iterObs, hwVars, sampleLog>>

\* self.config_vars = {}; for line in f: self.config_vars[key] = value
LoadRead ==
    /\ cfgPc = "read"
    /\ config_vars' = cfgFile
    /\ cfgPc' = "clamp"
    /\ UNCHANGED <<FREC_HISTORY, LOOP_RUN_UPS, I2C_SEND_ENABLED,
                   SHUTDOWN_DELAY, WATCHDOG_RPI, POST_SHUTDOWN, cfgFile,
                   eventLog>>
    /\ LoadFrame

\* self.X = max(self.MIN_X, min(int(self.config_vars["X"]), self.MAX_X)) ...
\* self.I2C_SEND_ENABLED = config_vars.get(..., "True").lower() == "true"
LoadClamp ==
    /\ cfgPc = "clamp"
    /\ SHUTDOWN_DELAY' = Clamp(MIN_SHUTDOWN_DELAY,
                               int(config_vars["SHUTDOWN_DELAY"]),
                               MAX_SHUTDOWN_DELAY)
    /\ WATCHDOG_RPI' = Clamp(MIN_WATCHDOG_RPI,
                             int(config_vars["WATCHDOG_RPI"]),
                             MAX_WATCHDOG_RPI)
    /\ LOOP_RUN_UPS' = Clamp(MIN_LOOP_RUN_UPS,
                             int(config_vars["LOOP_RUN_UPS"]),
                             MAX_LOOP_RUN_UPS)
    /\ POST_SHUTDOWN' = Clamp(MIN_POST_SHUTDOWN,
                              int(config_vars["POST_SHUTDOWN"]),
                              MAX_POST_SHUTDOWN)
    /\ FREC_HISTORY' = Clamp(MIN_FREC_HISTORY,
                             float(config_vars["FREC_HISTORY"]),
                             MAX_FREC_HISTORY)
    /\ I2C_SEND_ENABLED' =
         (lower(IF "I2C_SEND_ENABLED" \in DOMAIN config_vars
                THEN config_vars["I2C_SEND_ENABLED"] ELSE "True") = "true")
    /\ cfgPc' = "write_back"
    /\ UNCHANGED <<config_vars, cfgFile, eventLog>>
    /\ LoadFrame

\* for line in config_lines: key, value = line.strip().split("=")
\*     new_value = self.config_vars.get(key.strip(), value.strip())
\*     f_write.write(f"{key.strip()} = {new_value}\n")
LoadWriteBack ==
    /\ cfgPc = "write_back"
    /\ cfgFile' = [key \in DOMAIN cfgFile |->
                     IF key \in DOMAIN config_vars THEN config_vars[key]
                                                   ELSE cfgFile[key]]
    /\ cfgPc' = "start_line"
    /\ UNCHANGED <<FREC_HISTORY, LOOP_RUN_UPS, I2C_SEND_ENABLED,
                   SHUTDOWN_DELAY, WATCHDOG_RPI, POST_SHUTDOWN, config_vars,
                   eventLog>>
    /\ LoadFrame

\* with open(UPS_History_POWER.dbg, "a+") as file:
\*     file.write(... "The Raspberry Pi has started.")
\* (no try: an OSError ends the construction of the object)
LoadStartLine ==
    /\ cfgPc = "start_line"
    /\ \E ok \in BOOLEAN :
         IF ok
         THEN /\ eventLog' = [eventLog EXCEPT !.started = @ + 1]
              /\ cfgPc' = "done"
         ELSE /\ cfgPc' = "raised"
              /\ UNCHANGED eventLog
    /\ UNCHANGED <<FREC_HISTORY, LOOP_RUN_UPS, I2C_SEND_ENABLED,
                   SHUTDOWN_DELAY, WATCHDOG_RPI, POST_SHUTDOWN, config_vars,
                   cfgFile>>
    /\ LoadFrame

load_config == LoadRead \/ LoadClamp \/ LoadWriteBack \/ LoadStartLine

InitHistoryWrite_Now(t0) == t0

\* self.history_write = time.time() - self.FREC_HISTORY, computed in __init__
\* with the default FREC_HISTORY, before load_config replaces it
InitHistoryWrite(t0) == t0 - DEFAULT_FREC_HISTORY

\* ------------------------------------------------------------------- Init
\* __init__ up to the call of load_config, and the world outside the object
InitFields ==
    /\ sqwave = TRUE
    /\ pulse_pin_mutex = 0
    /\ now = 0
    /\ history_write = InitHistoryWrite(0)
    /\ mainPc = "open_bus"
    /\ last_mode = None
    /\ voltage = None
    /\ mode = None
    /\ pc = [h \in Handlers |-> "idle"]
    /\ channel = [h \in Handlers |-> CLOCK_PIN]
    /\ pinDir = "UNSET"
    /\ pinLevel = FALSE
    /\ armed = FALSE
    /\ upsLow = FALSE
    /\ sampleLog = 0
    /\ calls = 0
    /\ accepted = 0
    /\ toggles = 0
    /\ lowSamples = 0
    /\ shutdownCalls = 0
    /\ recordFailed = FALSE
    /\ exc = "none"
    /\ nValid = 0
    /\ prev = NoSample
    /\ cur = NoSample
    /\ evOutcome = "none"
    /\ lastAppend = None
    /\ startupLog = <<>>
    /\ busTrace = <<>>
    /\ window = "quiet"
    /\ iter = [last |-> None, event |-> 0, sample |-> 0]

\* the object at the call of load_config, on any of the configuration files
InitConfig ==
    /\ InitFields
    /\ cfgFile \in ConfigFiles
    /\ config_vars = <<>>
    /\ cfgPc = "read"
    /\ FREC_HISTORY = DEFAULT_FREC_HISTORY
    /\ LOOP_RUN_UPS = None
    /\ SHUTDOWN_DELAY = None
    /\ WATCHDOG_RPI = None
    /\ POST_SHUTDOWN = None
    /\ I2C_SEND_ENABLED = FALSE
    /\ eventLog = [started |-> 0, params |-> 0, mode |-> 0, shutdown |-> 0]

\* the object after construction: load_config has run on a file with the
\* shipped values but for the loop interval and the history frequency
Init ==
    /\ InitFields
    /\ \E rawFrec \in RawFrecHistory, rawLoop \in RawLoopRun,
          rawI2c \in {"True", "False"} :
         cfgFile = [SHUTDOWN_DELAY |-> Text(DEFAULT_SHUTDOWN_DELAY),
                    WATCHDOG_RPI |-> Text(DEFAULT_WATCHDOG_RPI),
                    LOOP_RUN_UPS |-> Text(rawLoop),
                    POST_SHUTDOWN |-> Text(DEFAULT_POST_SHUTDOWN),
                    FREC_HISTORY |-> Text(rawFrec),
                    I2C_SEND_ENABLED |-> rawI2c]
    /\ config_vars = cfgFile
    /\ cfgPc = "done"
    /\ SHUTDOWN_DELAY = Clamp(MIN_SHUTDOWN_DELAY,
                              int(config_vars["SHUTDOWN_DELAY"]),
                              MAX_SHUTDOWN_DELAY)
    /\ WATCHDOG_RPI = Clamp(MIN_WATCHDOG_RPI,
                            int(config_vars["WATCHDOG_RPI"]),
                            MAX_WATCHDOG_RPI)
    /\ LOOP_RUN_UPS = Clamp(MIN_LOOP_RUN_UPS,
                            int(config_vars["LOOP_RUN_UPS"]),
                            MAX_LOOP_RUN_UPS)
    /\ POST_SHUTDOWN = Clamp(MIN_POST_SHUTDOWN,
                             int(config_vars["POST_SHUTDOWN"]),
                             MAX_POST_SHUTDOWN)
    /\ FREC_HISTORY = Clamp(MIN_FREC_HISTORY,
                            float(config_vars["FREC_HISTORY"]),
                            MAX_FREC_HISTORY)
    /\ I2C_SEND_ENABLED = (lower(config_vars["I2C_SEND_ENABLED"]) = "true")
    /\ eventLog = [started |-> 1, params |-> 0, mode |-> 0, shutdown |-> 0]

\* The process runs until the main thread ends or the process is killed.
Alive == mainPc \notin {"returned", "exit1", "uncaught", "exited", "killed"}

\* ------------------------------------------------------------ RPi.GPIO
\* GPIO.input(PULSE_PIN): the driven level of an output, the line of an input
GpioInput == IF pinDir = "OUT" THEN pinLevel ELSE ~upsLow
GpioInputRaises == pinDir = "UNSET"
GpioOutputRaises == pinDir # "OUT"

\* ------------------------------------------------------------------- isr
\* what no step of a handler execution touches
IsrFrame == UNCHANGED <<mainState, mainObs, startObs, iterObs, cfgVars,
                        armed, upsLow, sampleLog>>

\* the edge-detection thread calls isr(channel)
IsrInvoke(h, ch) ==
    /\ Alive /\ armed
    /\ pc[h] = "idle"
    /\ calls < MaxCalls
    /\ calls' = calls + 1
    /\ pc' = [pc EXCEPT ![h] = "entry"]
    /\ channel' = [channel EXCEPT ![h] = ch]
    /\ UNCHANGED <<sqwave, pulse_pin_mutex, accepted, toggles, lowSamples,
                   shutdownCalls, recordFailed, pinDir, pinLevel, eventLog>>
    /\ IsrFrame

IsrCheckChannel_NoFilter(h) ==
    /\ Alive
    /\ pc[h] = "entry"
    /\ pc' = [pc EXCEPT ![h] = "acquire"]
    /\ accepted' = IF channel[h] = CLOCK_PIN THEN accepted + 1 ELSE accepted
    /\ UNCHANGED <<sqwave, pulse_pin_mutex, channel, calls, toggles,
                   lowSamples, shutdownCalls, recordFailed, pinDir, pinLevel,
                   eventLog>>
    /\ IsrFrame

\* if channel != self.CLOCK_PIN: return
IsrCheckChannel(h) ==
    /\ Alive
    /\ pc[h] = "entry"
    /\ IF channel[h] # CLOCK_PIN
       THEN /\ pc' = [pc EXCEPT ![h] = "idle"]
            /\ UNCHANGED accepted
       ELSE /\ pc' = [pc EXCEPT ![h] = "acquire"]
            /\ accepted' = accepted + 1
    /\ UNCHANGED <<sqwave, pulse_pin_mutex, channel, calls, toggles,
                   lowSamples, shutdownCalls, recordFailed, pinDir, pinLevel,
                   eventLog>>
    /\ IsrFrame

IsrAcquire_NoLock(h) ==
    /\ Alive
    /\ pc[h] = "acquire"
    /\ pulse_pin_mutex' = h
    /\ pc' = [pc EXCEPT ![h] = "read_level"]
    /\ UNCHANGED <<sqwave, channel, isrObs, pinDir, pinLevel, eventLog>>
    /\ IsrFrame

\* with self.pulse_pin_mutex:
IsrAcquire(h) ==
    /\ Alive
    /\ pc[h] = "acquire"
    /\ pulse_pin_mutex = 0
    /\ pulse_pin_mutex' = h
    /\ pc' = [pc EXCEPT ![h] = "read_level"]
    /\ UNCHANGED <<sqwave, channel, isrObs, pinDir, pinLevel, eventLog>>
    /\ IsrFrame

\* leaving the with block, normally or by an exception, releases the mutex
\* (threading.Lock.release does not check the owner)
Release == pulse_pin_mutex' = 0

\* an exception raised inside the with block ends the callback
IsrRaise(h) ==
    /\ pc' = [pc EXCEPT ![h] = "idle"]
    /\ Release

\* self.sqwave = not GPIO.input(self.PULSE_PIN)
IsrReadLevel(h) ==
    /\ Alive
    /\ pc[h] = "read_level"
    /\ IF GpioInputRaises
       THEN /\ IsrRaise(h)
            /\ UNCHANGED <<sqwave, toggles>>
       ELSE /\ sqwave' = ~GpioInput
            /\ toggles' = IF sqwave' # sqwave THEN toggles + 1 ELSE toggles
            /\ pc' = [pc EXCEPT ![h] = "drive_low"]
            /\ UNCHANGED pulse_pin_mutex
    /\ UNCHANGED <<channel, calls, accepted, lowSamples, shutdownCalls,
                   recordFailed, pinDir, pinLevel, eventLog>>
    /\ IsrFrame

\* GPIO.output(self.PULSE_PIN, False)
IsrDriveLow(h) ==
    /\ Alive
    /\ pc[h] = "drive_low"
    /\ IF GpioOutputRaises
       THEN /\ IsrRaise(h)
            /\ UNCHANGED pinLevel
       ELSE /\ pinLevel' = FALSE
            /\ pc' = [pc EXCEPT ![h] = "setup_in"]
            /\ UNCHANGED pulse_pin_mutex
    /\ UNCHANGED <<sqwave, channel, isrObs, pinDir, eventLog>>
    /\ IsrFrame

\* GPIO.setup(self.PULSE_PIN, GPIO.IN, pull_up_down=GPIO.PUD_UP)
IsrSetupIn(h) ==
    /\ Alive
    /\ pc[h] = "setup_in"
    /\ pinDir' = "IN"
    /\ pc' = [pc EXCEPT ![h] = "sample"]
    /\ UNCHANGED <<sqwave, pulse_pin_mutex, channel, isrObs, pinLevel,
                   eventLog>>
    /\ IsrFrame

\* if not GPIO.input(self.PULSE_PIN):
IsrSample(h) ==
    /\ Alive
    /\ pc[h] = "sample"
    /\ IF GpioInputRaises
       THEN /\ IsrRaise(h)
            /\ UNCHANGED lowSamples
       ELSE IF ~GpioInput
       THEN /\ pc' = [pc EXCEPT ![h] = "record"]
            /\ lowSamples' = lowSamples + 1
            /\ UNCHANGED pulse_pin_mutex
       ELSE /\ pc' = [pc EXCEPT ![h] = "setup_out"]
            /\ UNCHANGED <<lowSamples, pulse_pin_mutex>>
    /\ UNCHANGED <<sqwave, channel, calls, accepted, toggles, shutdownCalls,
                   recordFailed, pinDir, pinLevel, eventLog>>
    /\ IsrFrame

IsrRecord_Abort(h) ==
    /\ Alive
    /\ pc[h] = "record"
    /\ \E ok \in BOOLEAN :
         IF ok
         THEN /\ eventLog' = [eventLog EXCEPT !.shutdown = @ + 1]
              /\ pc' = [pc EXCEPT ![h] = "grace"]
              /\ UNCHANGED <<recordFailed, pulse_pin_mutex>>
         ELSE /\ recordFailed' = TRUE
              /\ IsrRaise(h)
              /\ UNCHANGED eventLog
    /\ UNCHANGED <<sqwave, channel, calls, accepted, toggles, lowSamples,
                   shutdownCalls, pinDir, pinLevel>>
    /\ IsrFrame

\* try: with open(UPS_History_POWER.dbg, "a+") as fb: fb.write(...)
\* except Exception: self.log.error(...)
IsrRecord(h) ==
    /\ Alive
    /\ pc[h] = "record"
    /\ \E ok \in BOOLEAN :
         IF ok
         THEN /\ eventLog' = [eventLog EXCEPT !.shutdown = @ + 1]
              /\ UNCHANGED recordFailed
         ELSE /\ recordFailed' = TRUE
              /\ UNCHANGED eventLog
    /\ pc' = [pc EXCEPT ![h] = "grace"]
    /\ UNCHANGED <<sqwave, pulse_pin_mutex, channel, calls, accepted, toggles,
                   lowSamples, shutdownCalls, pinDir, pinLevel>>
    /\ IsrFrame

IsrGraceSleep_Unlocked(h) ==
    /\ Alive
    /\ pc[h] = "grace"
    /\ pulse_pin_mutex' = 0
    /\ pc' = [pc EXCEPT ![h] = "call_shutdown"]
    /\ UNCHANGED <<sqwave, channel, isrObs, pinDir, pinLevel, eventLog>>
    /\ IsrFrame

\* time.sleep(2)
IsrGraceSleep(h) ==
    /\ Alive
    /\ pc[h] = "grace"
    /\ pc' = [pc EXCEPT ![h] = "call_shutdown"]
    /\ UNCHANGED <<sqwave, pulse_pin_mutex, channel, isrObs, pinDir, pinLevel,
                   eventLog>>
    /\ IsrFrame

IsrCallShutdown_NoReturn(h) ==
    /\ Alive
    /\ pc[h] = "call_shutdown"
    /\ shutdownCalls' = shutdownCalls + 1
    /\ pc' = [pc EXCEPT ![h] = "idle"]
    /\ Release
    /\ UNCHANGED <<sqwave, channel, calls, accepted, toggles, lowSamples,
                   recordFailed, pinDir, pinLevel, eventLog>>
    /\ IsrFrame

\* subprocess.call(['/sbin/shutdown', '-h', 'now'])
IsrCallShutdown(h) ==
    /\ Alive
    /\ pc[h] = "call_shutdown"
    /\ shutdownCalls' = shutdownCalls + 1
    /\ pc' = [pc EXCEPT ![h] = "setup_out"]
    /\ UNCHANGED <<sqwave, pulse_pin_mutex, channel, calls, accepted, toggles,
                   lowSamples, recordFailed, pinDir, pinLevel, eventLog>>
    /\ IsrFrame

IsrSetupOut_InitialHigh(h) ==
    /\ Alive
    /\ pc[h] = "setup_out"
    /\ pinDir' = "OUT"
    /\ pinLevel' = TRUE
    /\ Release
    /\ pc' = [pc EXCEPT ![h] = "idle"]
    /\ UNCHANGED <<sqwave, channel, isrObs, eventLog>>
    /\ IsrFrame

\* GPIO.setup(self.PULSE_PIN, GPIO.OUT, initial=self.sqwave); end of with
IsrSetupOut(h) ==
    /\ Alive
    /\ pc[h] = "setup_out"
    /\ pinDir' = "OUT"
    /\ pinLevel' = sqwave
    /\ Release
    /\ pc' = [pc EXCEPT ![h] = "idle"]
    /\ UNCHANGED <<sqwave, channel, isrObs, eventLog>>
    /\ IsrFrame

isr(h) ==
    \/ IsrCheckChannel(h)
    \/ IsrAcquire(h)
    \/ IsrReadLevel(h)
    \/ IsrDriveLow(h)
    \/ IsrSetupIn(h)
    \/ IsrSample(h)
    \/ IsrRecord(h)
    \/ IsrGraceSleep(h)
    \/ IsrCallShutdown(h)
    \/ IsrSetupOut(h)

\* ------------------------------------------------------------ environment
\* the UPS controller asserts or releases the shutdown request on the line
UpsAssert ==
    /\ Alive /\ armed
    /\ ~upsLow
    /\ upsLow' = TRUE
    /\ UNCHANGED <<isrState, isrObs, mainState, mainObs, startObs, iterObs,
                   cfgVars, pinDir, pinLevel, armed, fileVars>>

UpsRelease ==
    /\ Alive /\ armed
    /\ upsLow
    /\ upsLow' = FALSE
    /\ UNCHANGED <<isrState, isrObs, mainState, mainObs, startObs, iterObs,
                   cfgVars, pinDir, pinLevel, armed, fileVars>>

\* ------------------------------------------------------------------ main
\* what a step of main that only moves to its next statement leaves alone
MainFrame == UNCHANGED <<isrState, isrObs, cfgVars, upsLow>>

\* an entry of startupLog is present
Logged(event) == \E i \in 1..Len(startupLog) : startupLog[i] = event

MainOpenBus_NoReturn ==
    /\ mainPc = "open_bus"
    /\ \E ok \in BOOLEAN :
         /\ mainPc' = "gpio_setup"
         /\ startupLog' = IF ok THEN startupLog
                          ELSE Append(startupLog, "bus_failed")
    /\ UNCHANGED <<history_write, last_mode, voltage, mode, now, exc, mainObs,
                   busTrace, pinDir, pinLevel, armed, fileVars>>
    /\ UNCHANGED iterObs
    /\ MainFrame

\* self.bus = smbus.SMBus(1); except Exception: log.error; return
MainOpenBus ==
    /\ mainPc = "open_bus"
    /\ \E ok \in BOOLEAN :
         IF ok
         THEN /\ mainPc' = "gpio_setup"
              /\ UNCHANGED startupLog
         ELSE /\ mainPc' = "returned"
              /\ startupLog' = Append(startupLog, "bus_failed")
    /\ UNCHANGED <<history_write, last_mode, voltage, mode, now, exc, mainObs,
                   busTrace, pinDir, pinLevel, armed, fileVars>>
    /\ UNCHANGED iterObs
    /\ MainFrame

\* GPIO.setmode; GPIO.setup(CLOCK_PIN, IN); GPIO.setup(PULSE_PIN, OUT,
\* initial=True); GPIO.add_event_detect(CLOCK_PIN, FALLING, callback=isr)
\* except Exception: log.critical; sys.exit(1)
MainGpioSetup ==
    /\ mainPc = "gpio_setup"
    /\ \E ok \in BOOLEAN :
         IF ok
         THEN /\ pinDir' = "OUT"
              /\ pinLevel' = TRUE
              /\ armed' = TRUE
              /\ startupLog' = Append(startupLog, "arm")
              /\ mainPc' = IF I2C_SEND_ENABLED THEN "set_shutdown_time"
                                               ELSE "settle"
         ELSE /\ mainPc' = "exit1"
              /\ startupLog' = Append(startupLog, "gpio_failed")
              /\ UNCHANGED <<pinDir, pinLevel, armed>>
    /\ UNCHANGED <<history_write, last_mode, voltage, mode, now, exc, mainObs,
                   busTrace, fileVars>>
    /\ UNCHANGED iterObs
    /\ MainFrame

MainPush_ValueAfterFault(at, atValue, cmd, value, next) ==
    /\ \/ /\ mainPc = at
          /\ startupLog' = Append(startupLog, at)
          /\ \E ok \in BOOLEAN :
               /\ busTrace' = IF ok THEN <<cmd>> ELSE <<>>
               /\ mainPc' = atValue
       \/ /\ mainPc = atValue
          /\ \E ok \in BOOLEAN :
               busTrace' = IF ok THEN Append(busTrace, value) ELSE busTrace
          /\ mainPc' = next
          /\ UNCHANGED startupLog
    /\ UNCHANGED <<history_write, last_mode, voltage, mode, now, exc, mainObs,
                   pinDir, pinLevel, armed, fileVars>>
    /\ UNCHANGED iterObs
    /\ MainFrame

\* set_shutdown_time / set_watchdog_time / set_post_shutdown, in two steps:
\*   try: self.bus.write_byte(DIR_I2C, cmd); time.sleep(0.2)
\*        self.bus.write_byte(DIR_I2C, value)
\*   except IOError: log.error; return
\* (the ValueError of set_shutdown_time cannot happen: SHUTDOWN_DELAY is the
\*  int that load_config computed)
MainPush(at, atValue, cmd, value, next) ==
    /\ \/ /\ mainPc = at
          /\ startupLog' = Append(startupLog, at)
          /\ \E ok \in BOOLEAN :
               IF ok THEN /\ busTrace' = <<cmd>>
                          /\ mainPc' = atValue
                     ELSE /\ busTrace' = <<>>
                          /\ mainPc' = next
       \/ /\ mainPc = atValue
          /\ \E ok \in BOOLEAN :
               busTrace' = IF ok THEN Append(busTrace, value) ELSE busTrace
          /\ mainPc' = next
          /\ UNCHANGED startupLog
    /\ UNCHANGED <<history_write, last_mode, voltage, mode, now, exc, mainObs,
                   pinDir, pinLevel, armed, fileVars>>
    /\ UNCHANGED iterObs
    /\ MainFrame

MainSetShutdownTime ==
    MainPush("set_shutdown_time", "set_shutdown_time_value",
             SET_SHUTDOWN_TIME_CMD, SHUTDOWN_DELAY, "set_watchdog_time")
MainSetWatchdogTime ==
    MainPush("set_watchdog_time", "set_watchdog_time_value",
             WATCHDOG_RPI_CMD, WATCHDOG_RPI, "set_post_shutdown")
MainSetPostShutdown ==
    MainPush("set_post_shutdown", "set_post_shutdown_value",
             POST_SHUTDOWN_CMD, POST_SHUTDOWN, "param_record")

\* with open(UPS_History_POWER.dbg, "a+") as f: f.write(parameters)
\* (no try: an OSError ends main, before the try/finally of the loop)
MainParamRecord ==
    /\ mainPc = "param_record"
    /\ \E ok \in BOOLEAN :
         IF ok
         THEN /\ eventLog' = [eventLog EXCEPT !.params = @ + 1]
              /\ startupLog' = Append(startupLog, "record")
              /\ mainPc' = "settle"
              /\ UNCHANGED exc
         ELSE /\ exc' = "OSError"
              /\ mainPc' = "uncaught"
              /\ UNCHANGED <<eventLog, startupLog>>
    /\ busTrace' = <<>>
    /\ UNCHANGED <<history_write, last_mode, voltage, mode, now, mainObs,
                   pinDir, pinLevel, armed, sampleLog>>
    /\ UNCHANGED iterObs
    /\ MainFrame

\* top of "while True": if self.I2C_SEND_ENABLED: read ... ; time.sleep(...)
LoopTop == IF I2C_SEND_ENABLED THEN "read_voltage" ELSE "sleep"

MainSettle_NoWait ==
    /\ mainPc = "settle"
    /\ last_mode' = None
    /\ startupLog' = Append(startupLog, "settle")
    /\ mainPc' = LoopTop
    /\ UNCHANGED <<history_write, voltage, mode, now, exc, mainObs, busTrace,
                   pinDir, pinLevel, armed, fileVars>>
    /\ UNCHANGED iterObs
    /\ MainFrame

\* time.sleep(15); try: last_mode = None
MainSettle ==
    /\ mainPc = "settle"
    /\ now' = now + SETTLE_SECONDS
    /\ last_mode' = None
    /\ startupLog' = Append(startupLog, "settle")
    /\ mainPc' = LoopTop
    /\ UNCHANGED <<history_write, voltage, mode, exc, mainObs, busTrace,
                   pinDir, pinLevel, armed, fileVars>>
    /\ UNCHANGED iterObs
    /\ MainFrame

\* write_byte(cmd); sleep(0.2); read_byte(); except IOError: log; return None
BusRead(writeOk, readOk, byte) == IF writeOk /\ readOk THEN byte ELSE None
read_voltage(writeOk, readOk, byte) == BusRead(writeOk, readOk, byte)
read_ups_mode(writeOk, readOk, byte) == BusRead(writeOk, readOk, byte)

\* voltage = self.read_voltage()
MainReadVoltage ==
    /\ mainPc = "read_voltage"
    /\ \E writeOk, readOk \in BOOLEAN, byte \in Voltages :
         voltage' = read_voltage(writeOk, readOk, byte)
    /\ mainPc' = "read_ups_mode"
    /\ startupLog' = IF Logged("read") THEN startupLog
                     ELSE Append(startupLog, "read")
    /\ UNCHANGED <<history_write, last_mode, mode, now, exc, mainObs,
                   busTrace, pinDir, pinLevel, armed, fileVars>>
    /\ UNCHANGED iterObs
    /\ MainFrame

\* mode = self.read_ups_mode()
MainReadMode ==
    /\ mainPc = "read_ups_mode"
    /\ \E writeOk, readOk \in BOOLEAN, byte \in Modes :
         mode' = read_ups_mode(writeOk, readOk, byte)
    /\ mainPc' = "check"
    /\ UNCHANGED <<history_write, last_mode, voltage, now, exc, mainObs,
                   pinDir, pinLevel, armed, fileVars>>
    /\ UNCHANGED startObs
    /\ UNCHANGED iterObs
    /\ MainFrame

ReadsValid_Or(v, m) == v # None \/ m # None

\* if voltage is not None and mode is not None:
ReadsValid(v, m) == v # None /\ m # None

GateOpen_Half(t, last, freq) == 2 * (t - last) >= freq

\* if now - self.history_write >= self.FREC_HISTORY:
GateOpen(t, last, freq) == t - last >= freq

ModeChanged_Always(last, m) == TRUE

\* if last_mode is None or last_mode != mode:
ModeChanged(last, m) == last = None \/ last # m

\* observation: the sample of mode m at time t comes 10 seconds after the
\* previous successful sample, and the mode differs between the two
ChangedSince(t, m) == cur # NoSample /\ t - cur.t = 10 /\ m # cur.mode

\* the if-cascade of one iteration, up to the first file append
MainCheck ==
    /\ mainPc = "check"
    /\ IF ReadsValid(voltage, mode)
       THEN /\ nValid' = nValid + 1
            /\ prev' = cur
            /\ cur' = [t |-> now, mode |-> mode]
            /\ iter' = [last |-> last_mode, event |-> 0, sample |-> 0]
            /\ IF GateOpen(now, history_write, FREC_HISTORY)
               THEN /\ history_write' = now
                    /\ window' = IF window = "changed"
                                 THEN "gate_after_change" ELSE "quiet"
                    /\ mainPc' = IF ModeChanged(last_mode, mode)
                                 THEN "event_write" ELSE "sample_write"
               ELSE /\ mainPc' = "sleep"
                    /\ window' = IF window = "changed" \/ ChangedSince(now, mode)
                                 THEN "changed" ELSE "quiet"
                    /\ UNCHANGED history_write
       ELSE /\ mainPc' = "sleep"
            /\ UNCHANGED <<history_write, nValid, prev, cur, iterObs>>
    /\ UNCHANGED <<last_mode, voltage, mode, now, exc, evOutcome, lastAppend,
                   pinDir, pinLevel, armed, fileVars>>
    /\ UNCHANGED startObs
    /\ MainFrame

\* try: with open(UPS_History_POWER.dbg, "a+") as fb: fb.write(...);
\*      last_mode = mode
\* except Exception: log.error
\* ("flush_fails": the buffered line is lost when the with block closes
\*  the file, after last_mode was assigned)
MainEventWrite ==
    /\ mainPc = "event_write"
    /\ \E outcome \in AppendOutcomes :
         /\ eventLog' = IF outcome = "ok"
                        THEN [eventLog EXCEPT !.mode = @ + 1] ELSE eventLog
         /\ evOutcome' = outcome
         /\ iter' = IF outcome = "ok" THEN [iter EXCEPT !.event = @ + 1]
                                      ELSE iter
         /\ last_mode' = IF outcome = "open_fails" THEN last_mode ELSE mode
    /\ mainPc' = "sample_write"
    /\ UNCHANGED <<history_write, voltage, mode, now, exc, nValid, prev, cur,
                   lastAppend, pinDir, pinLevel, armed, sampleLog>>
    /\ UNCHANGED startObs
    /\ UNCHANGED window
    /\ MainFrame

MainSampleWrite_Swallow ==
    /\ mainPc = "sample_write"
    /\ \E ok \in BOOLEAN :
         IF ok
         THEN /\ sampleLog' = sampleLog + 1
              /\ lastAppend' = now
              /\ iter' = [iter EXCEPT !.sample = @ + 1]
         ELSE UNCHANGED <<sampleLog, lastAppend, iter>>
    /\ mainPc' = "sleep"
    /\ UNCHANGED <<history_write, last_mode, voltage, mode, now, exc, nValid,
                   prev, cur, evOutcome, pinDir, pinLevel, armed, eventLog>>
    /\ UNCHANGED startObs
    /\ UNCHANGED window
    /\ MainFrame

\* with open(UPS_History.dbg, "a+") as f: f.write(...)
\* (no try: an OSError leaves the while loop through the finally clause)
MainSampleWrite ==
    /\ mainPc = "sample_write"
    /\ \E ok \in BOOLEAN :
         IF ok
         THEN /\ sampleLog' = sampleLog + 1
              /\ lastAppend' = now
              /\ iter' = [iter EXCEPT !.sample = @ + 1]
              /\ mainPc' = "sleep"
              /\ UNCHANGED exc
         ELSE /\ exc' = "OSError"
              /\ mainPc' = "finally"
              /\ UNCHANGED <<sampleLog, lastAppend, iter>>
    /\ UNCHANGED <<history_write, last_mode, voltage, mode, now, nValid,
                   prev, cur, evOutcome, pinDir, pinLevel, armed, eventLog>>
    /\ UNCHANGED startObs
    /\ UNCHANGED window
    /\ MainFrame

\* time.sleep(self.LOOP_RUN_UPS)
MainSleep(maxTime) ==
    /\ mainPc = "sleep"
    /\ \E late \in Overshoot :
         /\ now + LOOP_RUN_UPS + late <= maxTime
         /\ now' = now + LOOP_RUN_UPS + late
    /\ mainPc' = LoopTop
    /\ UNCHANGED <<history_write, last_mode, voltage, mode, exc, mainObs,
                   pinDir, pinLevel, armed, fileVars>>
    /\ UNCHANGED startObs
    /\ UNCHANGED iterObs
    /\ MainFrame

InTry == mainPc \in {"read_voltage", "read_ups_mode", "check", "event_write",
                     "sample_write", "sleep"}
PushPcs == {"set_shutdown_time", "set_shutdown_time_value",
            "set_watchdog_time", "set_watchdog_time_value",
            "set_post_shutdown", "set_post_shutdown_value"}
InStartup == mainPc \in {"open_bus", "gpio_setup", "param_record", "settle"}
                        \cup PushPcs

\* SIGINT: KeyboardInterrupt in the main thread; caught only by the
\* try/except/finally around the while loop
KeyboardInterrupt ==
    /\ InTry \/ InStartup
    /\ mainPc' = IF InTry THEN "finally" ELSE "uncaught"
    /\ exc' = "KeyboardInterrupt"
    /\ UNCHANGED <<history_write, last_mode, voltage, mode, now, mainObs,
                   pinDir, pinLevel, armed, fileVars>>
    /\ UNCHANGED startObs
    /\ UNCHANGED iterObs
    /\ MainFrame

\* finally: GPIO.cleanup()
MainCleanup ==
    /\ mainPc = "finally"
    /\ pinDir' = "UNSET"
    /\ armed' = FALSE
    /\ mainPc' = "cleaned"
    /\ UNCHANGED <<history_write, last_mode, voltage, mode, now, exc, mainObs,
                   pinLevel, fileVars>>
    /\ UNCHANGED startObs
    /\ UNCHANGED iterObs
    /\ MainFrame

\* main returns (or the pending exception ends it): the process exits
MainExit ==
    /\ mainPc = "cleaned"
    /\ mainPc' = "exited"
    /\ UNCHANGED <<history_write, last_mode, voltage, mode, now, exc, mainObs,
                   pinDir, pinLevel, armed, fileVars>>
    /\ UNCHANGED startObs
    /\ UNCHANGED iterObs
    /\ MainFrame

\* SIGTERM (no handler is installed), e.g. from the shutdown in progress
Terminate ==
    /\ Alive
    /\ mainPc' = "killed"
    /\ UNCHANGED <<history_write, last_mode, voltage, mode, now, exc, mainObs,
                   pinDir, pinLevel, armed, fileVars>>
    /\ UNCHANGED startObs
    /\ UNCHANGED iterObs
    /\ MainFrame

main(maxTime) ==
    \/ MainOpenBus
    \/ MainGpioSetup
    \/ MainSetShutdownTime
    \/ MainSetWatchdogTime
    \/ MainSetPostShutdown
    \/ MainParamRecord
    \/ MainSettle
    \/ MainReadVoltage
    \/ MainReadMode
    \/ MainCheck
    \/ MainEventWrite
    \/ MainSampleWrite
    \/ MainSleep(maxTime)
    \/ MainCleanup
    \/ MainExit

\* ------------------------------------------------------- specifications
\* SpecIsr: the whole process -- the main thread, the callback executions,
\* the signals and the UPS controller, interleaved -- with the polling loop
\* followed for its first iterations.
NextIsr ==
    \/ \E h \in Handlers, ch \in Channels : IsrInvoke(h, ch)
    \/ \E h \in Handlers : isr(h)
    \/ main(IsrMaxTime)
    \/ KeyboardInterrupt
    \/ Terminate
    \/ UpsAssert
    \/ UpsRelease

SpecIsr == Init /\ [][NextIsr]_vars

\* SpecPulse: the callback executions with main's startup and teardown, the
\* signals and the UPS controller.  The polling iterations of main are left
\* out: they write no variable a callback execution reads or writes
\* (MainFrame), as SpecLoop leaves out the callback executions.
\* A callback execution that can take its next step eventually takes it:
\* every step of isr is a library call, a sleep or a subprocess that
\* returns, run by a thread the scheduler does not starve.  Nothing is
\* assumed of main, of the signals or of the UPS controller.
MainStartup ==
    \/ MainOpenBus
    \/ MainGpioSetup
    \/ MainSetShutdownTime
    \/ MainSetWatchdogTime
    \/ MainSetPostShutdown
    \/ MainParamRecord
    \/ MainSettle

MainTeardown == MainCleanup \/ MainExit

NextPulse ==
    \/ \E h \in Handlers, ch \in Channels : IsrInvoke(h, ch)
    \/ \E h \in Handlers : isr(h)
    \/ MainStartup
    \/ MainTeardown
    \/ KeyboardInterrupt
    \/ Terminate
    \/ UpsAssert
    \/ UpsRelease

SpecPulse ==
    Init /\ [][NextPulse]_vars /\ \A h \in Handlers : WF_vars(isr(h))

\* SpecLoop: the main thread and the signals, with the polling loop followed
\* over several history periods.  No step of a callback execution writes a
\* variable of main, the sample log or the mode lines of the event log
\* (IsrFrame), so the loop is followed without them.
NextLoop ==
    \/ main(LoopMaxTime)
    \/ KeyboardInterrupt
    \/ Terminate

SpecLoop == Init /\ [][NextLoop]_vars

\* SpecConfig: load_config alone, run on each of the configuration files.
NextConfig == load_config

SpecConfig == InitConfig /\ [][NextConfig]_vars

\* ------------------------------------------------------------- properties
\* positions of a handler execution inside "with self.pulse_pin_mutex"
Critical == {"read_level", "drive_low", "setup_in", "sample", "record",
             "grace", "call_shutdown", "setup_out"}
\* ... between sampling PULSE_PIN low and the return of /sbin/shutdown
GracePath == {"record", "grace", "call_shutdown"}
\* accepted executions that have not yet executed the assignment to sqwave
BeforeToggle == {h \in Handlers : pc[h] \in {"acquire", "read_level"}}
InGracePath == {h \in Handlers : pc[h] \in GracePath}
PinChanges == pinDir' # pinDir \/ pinLevel' # pinLevel

\* C1: while the interrupt is armed, whatever the polling loop is doing,
\* sqwave has been inverted once for every accepted clock edge whose handler
\* has executed its assignment, and never for a callback of another channel:
\* toggles = accepted edges - those still before the assignment, and sqwave
\* is high exactly when that number is even.
C1_ToggleOncePerAcceptedEdge ==
    armed =>
        /\ toggles + Cardinality(BeforeToggle) = accepted
        /\ sqwave = (toggles % 2 = 0)

C1_Witness ==
    /\ armed
    /\ accepted = 2
    /\ toggles = 2
    /\ sqwave
    /\ mainPc = "read_ups_mode"

\* C2: once PULSE_PIN has been sampled low, /sbin/shutdown is invoked
\* exactly once in the life of the process: never more than once, and at
\* least once as soon as no handler execution is still on its way to it.
C2_ShutdownExactlyOnce ==
    lowSamples > 0 =>
        /\ shutdownCalls <= 1
        /\ (InGracePath = {} => shutdownCalls >= 1)

\* C3: while a handler execution is between sampling PULSE_PIN low and the
\* return of the shutdown action, it holds the mutex, sqwave does not change
\* and no handler execution changes the direction or level of PULSE_PIN
\* (the only other writer of the pin is GPIO.cleanup() in main).
C3_NoToggleDuringGrace ==
    [][\A h \in Handlers :
         pc[h] \in GracePath =>
            /\ pulse_pin_mutex = h
            /\ sqwave' = sqwave
            /\ toggles' = toggles
            /\ PinChanges => (mainPc = "finally" /\ mainPc' = "cleaned")]_vars

C3_Witness ==
    \E h, g \in Handlers :
        /\ pc[h] = "grace"
        /\ pc[g] = "acquire"
        /\ pinDir = "IN"

\* C4: at most one handler execution is inside the critical section, and an
\* execution that has just acquired the mutex never finds PULSE_PIN in the
\* input configuration of another execution.
C4_MutualExclusion ==
    /\ Cardinality({h \in Handlers : pc[h] \in Critical}) <= 1
    /\ \A h \in Handlers : pc[h] \in Critical => pulse_pin_mutex = h
    /\ \A h \in Handlers : pc[h] = "read_level" => pinDir # "IN"

C4_Witness ==
    \E h, g \in Handlers :
        /\ pc[h] = "sample"
        /\ pinDir = "IN"
        /\ pc[g] = "acquire"

\* C5: once the interrupt is armed, every change of the direction or level
\* of PULSE_PIN is a step of a handler execution that holds the mutex.
C5_PinOnlyInCriticalSection ==
    [][(armed /\ PinChanges) =>
          \E h \in Handlers :
              /\ pulse_pin_mutex = h
              /\ pc[h] \in Critical
              /\ pc'[h] # pc[h]]_vars

\* C6: two consecutive sample-log appends are at least FREC_HISTORY seconds
\* apart, and a mode line is appended to the event log only in an iteration
\* whose mode differs from last_mode or when no mode is recorded yet.
C6_HistoryRate ==
    [][/\ sampleLog' # sampleLog =>
            (lastAppend = None \/ now - lastAppend >= FREC_HISTORY)
       /\ eventLog'.mode # eventLog.mode =>
            (last_mode = None \/ last_mode # mode)]_vars

C6_Witness ==
    /\ sampleLog = 2
    /\ eventLog.mode = 1
    /\ last_mode = mode
    /\ lastAppend >= SETTLE_SECONDS + FREC_HISTORY

\* C7: a failed append to either history file is logged and ignored: no
\* OSError of an append ever leaves the statement that made it.
C7_AppendFailureIgnored == exc # "OSError"

\* C8: an iteration in which read_voltage or read_ups_mode returned None
\* goes straight to the sleep: it writes no line and leaves history_write
\* and last_mode as they were (the reads themselves raise nothing).
C8_FailedReadSkipsHistory ==
    [][(/\ mainPc = "check"
        /\ (voltage = None \/ mode = None)
        /\ mainPc' \notin {"finally", "killed"}) =>
           /\ mainPc' = "sleep"
           /\ UNCHANGED <<history_write, last_mode, eventLog, sampleLog,
                          exc>>]_vars

C8_Witness ==
    /\ mainPc = "read_voltage"
    /\ now > SETTLE_SECONDS
    /\ voltage # None
    /\ mode = None
    /\ nValid = 0
    /\ sampleLog = 0
    /\ history_write = InitHistoryWrite(0)

\* C9: every handler execution that sampled PULSE_PIN low goes on to the
\* grace wait and from there to the shutdown action, whether or not its
\* shutdown-request record could be written.
C9_ShutdownDespiteRecordFailure ==
    /\ [](shutdownCalls + Cardinality(InGracePath) = lowSamples)
    /\ [][\A h \in Handlers :
            /\ pc[h] = "record" /\ pc'[h] # pc[h] => pc'[h] = "grace"
            /\ pc[h] = "grace" /\ pc'[h] # pc[h] => pc'[h] = "call_shutdown"
            /\ shutdownCalls' # shutdownCalls /\ pc'[h] # pc[h] =>
                 pc[h] = "call_shutdown"]_vars

C9_Witness ==
    /\ recordFailed
    /\ eventLog.shutdown = 0
    /\ lowSamples = 1
    /\ shutdownCalls = 1

\* the scenario of C10: FREC_HISTORY = 60, the first two successful samples
\* of the process, 30 seconds apart, same mode, second iteration finished
C10_Scenario ==
    /\ FREC_HISTORY = 60
    /\ nValid = 2
    /\ cur.t - prev.t = 30
    /\ cur.mode = prev.mode
    /\ mainPc = "sleep"

\* C10 as stated: one sample-log line in total, written at the first
\* sample, and no mode line in the event log from either sample.
C10_OneSampleLineNoEventLine ==
    C10_Scenario =>
        /\ sampleLog = 1
        /\ lastAppend = prev.t
        /\ eventLog.mode = 0

\* C10 amended: one sample-log line in total, written at the first sample;
\* the first sample, with no mode recorded before it, also appends a mode
\* line to the event log (lost only if that append fails); the second sample
\* writes to neither log.
C10_OneSampleLineOneEventLine ==
    C10_Scenario =>
        /\ sampleLog = 1
        /\ lastAppend = prev.t
        /\ history_write = prev.t
        /\ evOutcome # "none"
        /\ eventLog.mode = (IF evOutcome = "ok" THEN 1 ELSE 0)

C10_Witness ==
    /\ C10_Scenario
    /\ evOutcome = "ok"
    /\ eventLog.mode = 1
    /\ sampleLog = 1

\* the parameter loaded for a numeric key, and the bounds documented for it
Loaded(key) ==
    CASE key = "SHUTDOWN_DELAY" -> SHUTDOWN_DELAY
      [] key = "WATCHDOG_RPI" -> WATCHDOG_RPI
      [] key = "LOOP_RUN_UPS" -> LOOP_RUN_UPS
      [] key = "POST_SHUTDOWN" -> POST_SHUTDOWN
      [] key = "FREC_HISTORY" -> FREC_HISTORY
LowerBound(key) ==
    CASE key = "SHUTDOWN_DELAY" -> 1
      [] key = "WATCHDOG_RPI" -> 3
      [] key = "LOOP_RUN_UPS" -> 1
      [] key = "POST_SHUTDOWN" -> 10
      [] key = "FREC_HISTORY" -> 20
UpperBound(key) ==
    CASE key = "SHUTDOWN_DELAY" -> 235
      [] key = "WATCHDOG_RPI" -> 10
      [] key = "LOOP_RUN_UPS" -> 20
      [] key = "POST_SHUTDOWN" -> 254
      [] key = "FREC_HISTORY" -> 3600
ConfigLoaded == cfgPc \in {"write_back", "start_line", "done", "raised"}

\* C12: once load_config has assigned the parameters, each one lies within
\* its documented bounds, equals the number read from the file when that
\* number is in range, and equals the nearer bound otherwise.
C12_LoadedIsClamped ==
    ConfigLoaded =>
        \A key \in NumericKeys :
            LET raw == int(config_vars[key])
            IN  /\ LowerBound(key) <= Loaded(key) /\ Loaded(key) <= UpperBound(key)
                /\ (LowerBound(key) <= raw /\ raw <= UpperBound(key)) =>
                       Loaded(key) = raw
                /\ raw < LowerBound(key) => Loaded(key) = LowerBound(key)
                /\ raw > UpperBound(key) => Loaded(key) = UpperBound(key)

C12_Witness ==
    /\ cfgPc = "done"
    /\ config_vars["SHUTDOWN_DELAY"] = <<5, 0, 0>>
    /\ SHUTDOWN_DELAY = 235
    /\ config_vars["POST_SHUTDOWN"] = <<9>>
    /\ POST_SHUTDOWN = 10
    /\ config_vars["WATCHDOG_RPI"] = <<0, 5>>
    /\ WATCHDOG_RPI = 5

\* C18: when load_config is done, the value the configuration file holds
\* for each numeric key is the loaded (clamped) parameter.
C18_FileHoldsClampedValue ==
    cfgPc = "done" =>
        \A key \in NumericKeys : int(cfgFile[key]) = Loaded(key)

IsPrefix(short, long) ==
    /\ Len(short) <= Len(long)
    /\ \A i \in 1..Len(short) : short[i] = long[i]
InitFailed == Logged("bus_failed") \/ Logged("gpio_failed")
StartupWithPush == <<"arm", "set_shutdown_time", "set_watchdog_time",
                     "set_post_shutdown", "record", "settle", "read">>
StartupWithoutPush == <<"arm", "settle">>

\* C15: when initialisation succeeds, main arms the edge detection, then
\* (push enabled) attempts the pushes in the order shutdown delay, watchdog,
\* post-shutdown grace, then records the parameters in the event log, then
\* waits 15 seconds, and only then reads; the detection is armed during
\* every push, the parameter record exists once "record" is reached, and
\* no read happens before 15 seconds have passed.
C15_StartupOrder ==
    /\ ~InitFailed =>
         IsPrefix(startupLog, IF I2C_SEND_ENABLED THEN StartupWithPush
                                                  ELSE StartupWithoutPush)
    /\ mainPc \in PushPcs => armed /\ Logged("arm")
    /\ Logged("record") <=> eventLog.params = 1
    /\ Logged("read") => now >= SETTLE_SECONDS /\ Logged("settle")
    /\ mainPc \in {"read_ups_mode", "check", "event_write", "sample_write"}
         => Logged("read")

C15_Witness ==
    /\ startupLog = StartupWithPush
    /\ mainPc = "read_ups_mode"
    /\ now = SETTLE_SECONDS
    /\ eventLog.params = 1

\* the bytes a push may have put on the bus when it has returned
PushTraces(cmd, value) == {<<>>, <<cmd>>, <<cmd, value>>}
\* the positions main goes through when push is enabled, in order
PushSequence == <<"set_shutdown_time", "set_shutdown_time_value",
                  "set_watchdog_time", "set_watchdog_time_value",
                  "set_post_shutdown", "set_post_shutdown_value",
                  "param_record">>
PushIndex(at) == CHOOSE i \in 1..Len(PushSequence) : PushSequence[i] = at

\* a step of main out of a position of a push, signals aside
PushStepForward ==
    (/\ mainPc \in PushPcs
     /\ mainPc' # mainPc
     /\ exc' # "KeyboardInterrupt"
     /\ mainPc' # "killed")
    => /\ exc' = "none"
       /\ mainPc' \in PushPcs \cup {"param_record"}
       /\ PushIndex(mainPc') > PushIndex(mainPc)
       /\ PushIndex(mainPc') <= PushIndex(mainPc) + 2
       /\ PushIndex(mainPc') = PushIndex(mainPc) + 2 =>
            mainPc \in {"set_shutdown_time", "set_watchdog_time",
                        "set_post_shutdown"}

\* C16: a push puts on the bus nothing, its opcode alone, or its opcode
\* followed by its value -- the value is written only after the opcode got
\* through, each at most once; and a step of a push, whatever the bus did,
\* raises nothing and leads to the value write of the same push or to the
\* next push (the parameter record after the last one), never back.
C16_PushOneShot ==
    /\ [](/\ mainPc = "set_shutdown_time" => busTrace = <<>>
          /\ mainPc = "set_shutdown_time_value" =>
               busTrace = <<SET_SHUTDOWN_TIME_CMD>>
          /\ mainPc = "set_watchdog_time" =>
               busTrace \in PushTraces(SET_SHUTDOWN_TIME_CMD, SHUTDOWN_DELAY)
          /\ mainPc = "set_watchdog_time_value" =>
               busTrace = <<WATCHDOG_RPI_CMD>>
          /\ mainPc = "set_post_shutdown" =>
               busTrace \in PushTraces(WATCHDOG_RPI_CMD, WATCHDOG_RPI)
          /\ mainPc = "set_post_shutdown_value" =>
               busTrace = <<POST_SHUTDOWN_CMD>>
          /\ mainPc = "param_record" =>
               busTrace \in PushTraces(POST_SHUTDOWN_CMD, POST_SHUTDOWN))
    /\ [][PushStepForward]_vars

\* the watchdog push faulted at its opcode and put nothing on the bus;
\* main is at the post-shutdown push
C16_Witness ==
    /\ mainPc = "set_post_shutdown"
    /\ busTrace = <<>>
    /\ startupLog = <<"arm", "set_shutdown_time", "set_watchdog_time">>

\* C17: once the bus could not be opened or the pins could not be
\* configured, the process is over; the failure is the only thing main did:
\* no push, no parameter record, no settle wait, no read, no line in
\* either history file, and the edge detection is not armed.
C17_InitFailureEndsProcess ==
    InitFailed =>
        /\ mainPc \in {"returned", "exit1"}
        /\ startupLog \in {<<"bus_failed">>, <<"gpio_failed">>}
        /\ busTrace = <<>>
        /\ eventLog.params = 0 /\ eventLog.mode = 0
        /\ sampleLog = 0
        /\ nValid = 0
        /\ voltage = None /\ mode = None
        /\ ~armed

C17_Witness ==
    /\ mainPc = "exit1"
    /\ startupLog = <<"gpio_failed">>

\* C13: when the process has ended after the pins were configured -- by a
\* signal or otherwise -- GPIO.cleanup() has run: the edge detection is
\* removed and the pulse pin is un-configured.
C13_CleanupOnEveryExit ==
    (~Alive /\ Logged("arm")) => (~armed /\ pinDir = "UNSET")

\* the latest iteration with both reads successful is over
IterationDone == mainPc \in {"sleep", "read_voltage", "read_ups_mode", "check"}
\* ... and it is the one that passed the gate of a period in which the mode
\* changed between two successful samples 10 seconds apart
GateAfterChange == FREC_HISTORY = 60 /\ window = "gate_after_change"
\* ... or one inside such a period, at or after the second of the two samples
InsideAfterChange == FREC_HISTORY = 60 /\ window = "changed"

\* C11 as stated: inside the period no event-log line is written; the first
\* successful sample at or after the gate writes exactly one event-log line
\* and exactly one sample-log line.
C11_OneEventLineAtGate ==
    /\ InsideAfterChange => iter.event = 0
    /\ (GateAfterChange /\ IterationDone) =>
           (iter.event = 1 /\ iter.sample = 1)

\* C11 amended: inside the period neither file is written; the first
\* successful sample at or after the gate writes exactly one sample-log line
\* (none only if that append raises, which ends the loop), and exactly one
\* event-log line when the mode it sampled differs from the mode recorded
\* last and the append succeeds -- none when the mode is back to the
\* recorded one.
C11_EventLineAtGateIfModeDiffers ==
    /\ InsideAfterChange => (iter.event = 0 /\ iter.sample = 0)
    /\ (GateAfterChange /\ IterationDone) =>
           /\ iter.sample = 1
           /\ lastAppend = cur.t
           /\ iter.event = (IF /\ iter.last = None \/ iter.last # cur.mode
                               /\ evOutcome = "ok"
                            THEN 1 ELSE 0)
    /\ (GateAfterChange /\ mainPc = "finally" /\ exc = "OSError") =>
           iter.sample = 0

\* the mode changed at t = 25, stayed changed, and the sample at the gate
\* appended its event-log line and its sample-log line
C11_Witness ==
    /\ GateAfterChange
    /\ mainPc = "sleep"
    /\ iter.last # None /\ iter.last # cur.mode
    /\ iter.event = 1
    /\ iter.sample = 1
    /\ eventLog.mode = 2
    /\ sampleLog = 2

\* C19: when an iteration that passed the history gate is over, last_mode
\* is the mode that iteration sampled.
C19_LastModeIsSampledMode ==
    (mainPc = "sleep" /\ cur.t = now /\ history_write = now) =>
        last_mode = cur.mode

\* C20: when the first iteration with both reads successful is over, it has
\* appended a sample-log line.
C20_GateOpenAtStartup ==
    (nValid = 1 /\ mainPc = "sleep" /\ cur.t = now) =>
        (sampleLog = 1 /\ lastAppend = now)

\* a callback execution leaves the critical section while the edge
\* detection is armed (GPIO.cleanup() has not run)
LeavesCritical(h) == pc[h] \in Critical /\ pc'[h] = "idle" /\ armed'

\* C14: whenever a callback execution holds the mutex, the mutex is
\* eventually free again (or the process has ended), whether or not the
\* execution sampled the line low; and an execution that ends while the
\* edge detection is armed leaves the pulse pin an output at level sqwave
\* and the mutex free.
C14_HandlerCompletes ==
    /\ (pulse_pin_mutex # 0) ~> (pulse_pin_mutex = 0 \/ ~Alive)
    /\ [][\A h \in Handlers :
            LeavesCritical(h) =>
                /\ pinDir' = "OUT"
                /\ pinLevel' = sqwave'
                /\ pulse_pin_mutex' = 0]_vars

\* an execution that sampled the line low and called shutdown is over; the
\* pin is an output at sqwave again and the mutex is free
C14_Witness ==
    /\ shutdownCalls = 1
    /\ lowSamples = 1
    /\ \A h \in Handlers : pc[h] = "idle"
    /\ Alive /\ armed
    /\ pinDir = "OUT"
    /\ pinLevel = sqwave
    /\ pulse_pin_mutex = 0

\* accepted clock edges whose callback execution has taken the mutex
EdgesServed == accepted - Cardinality({h \in Handlers : pc[h] = "acquire"})

\* C21: while the edge detection is armed and no callback execution holds
\* the mutex, the pulse pin is an output driven at sqwave; that level is
\* high when no clock edge has been served yet and, from then on, high
\* exactly when the number of accepted clock edges served is even.
C21_DrivingLevel ==
    (armed /\ pulse_pin_mutex = 0) =>
        /\ pinDir = "OUT"
        /\ pinLevel = sqwave
        /\ pinLevel = (EdgesServed % 2 = 0)

\* one clock edge has been served: the pin is an output driven low
C21_Witness ==
    /\ armed /\ Alive
    /\ pulse_pin_mutex = 0
    /\ \A h \in Handlers : pc[h] = "idle"
    /\ accepted = 1
    /\ pinDir = "OUT"
    /\ ~pinLevel
    /\ ~sqwave

====
